---- MODULE Spec2Model ----
(***************************************************************************)
(* Model of microkernel-mod-sequelize (src/microkernel-mod-sequelize.js):  *)
(* the Module.prepare / Module.release lifecycle of the database           *)
(* connection.  The collaborators (the kernel's resource slots, its log    *)
(* and fatal services, its hook broadcast, the Sequelize handle and the    *)
(* database behind it) are the environment: every call the module makes on *)
(* them is appended to `events`, and their outcomes (a promise resolving   *)
(* or rejecting, a participant throwing) are nondeterministic.             *)
(***************************************************************************)
EXTENDS Integers, Sequences, FiniteSets, TLC

VARIABLES
    opts,      \* the shared options record, kernel.rs("options:options")
    procmode,  \* kernel.rs("ctx:procmode")
    rs,        \* the kernel's resource slots "db" and "dm" (0: undefined)
    handles,   \* the Sequelize handles constructed so far, by identity
    dms,       \* the schema model objects created so far, by identity
    tables,    \* the schema objects of the database behind the handle
    pc,        \* where the pending async call is suspended ("idle": none)
    frame,     \* the locals of the pending call: db, dm, url
    hk,        \* hook participants that have run in the pending broadcast
    last,      \* how the last completed call of prepare/release ended
    events,    \* the calls made on collaborators by the current (or last) call
               \* of prepare/release, in order, from its entry to its exit
    calls,     \* calls of prepare and release the host has made so far
    config,    \* the option values as the host's option system produced them
    qry,       \* a database operation run under the handle's retry options
    drv        \* a statement the driver hands to options.logging, and the log sink

vars == <<opts, procmode, rs, handles, dms, tables, pc, frame, hk, last,
          events, calls, config, qry, drv>>

----------------------------------------------------------------------------
(* Bounds of the model *)

\* calls of prepare and release the host makes
MaxCalls == 3
\* the largest db-query-retry-max tried
MaxRetry == 3
\* the longest statement, in pieces, the driver hands to options.logging
MaxStmtLen == 4
\* participants registered on the hook "sequelize:ddl"
NumParticipants == 2

----------------------------------------------------------------------------
(* Values *)

\* JavaScript's undefined, where a string is expected
Undefined == "<undefined>"

Dialects == {"postgres", "mysql", "sqlite"}
Passwords == {"secret"}
ProcModes == {"standalone", "worker"}

\* names of schema objects a hook participant may define
Names == {"Account", "Session"}

\* participant i (1..NumParticipants) contributes this schema object
NameOf(i) == IF i = 1 THEN "Account" ELSE "Session"

\* errors the collaborators raise
AuthErrors == {"SequelizeConnectionRefusedError", "SequelizeAccessDeniedError"}
SyncErrors == {"SequelizeDatabaseError", "SequelizeTimeoutError"}
HookErrors == {"ParticipantError"}
CtorErrors == {"DialectError"}
CloseErrors == {"ConnectionManagerClosedError"}
TypeError == "TypeError"
NoError == ""

\* a string option that the module takes apart is the sequence of its pieces
DefaultRetryMatch == <<"SQLITE_BUSY">>

\* the option values the host's option system hands to the module, with the
\* pool maximum and the retry options drawn from the given sets
OptionsWith(poolMax, retryMax, retryMatch) ==
    [ daemon               : BOOLEAN,
      daemon_kill          : BOOLEAN,
      db_dialect           : Dialects,
      db_host              : {"localhost"},
      db_port              : {5432},
      db_database          : {"example"},
      db_username          : {"admin"},
      db_password          : Passwords,
      db_schema_drop       : BOOLEAN,
      db_pool_min          : {0},
      db_pool_max          : poolMax,
      db_pool_idle         : {10000},
      db_pool_acquire      : {10000},
      db_pool_evict        : {10000},
      db_query_retry_max   : retryMax,
      db_query_retry_match : retryMatch ]

\* the option values with the pool and retry options at their defaults
Options == OptionsWith({5}, {5}, {DefaultRetryMatch})

----------------------------------------------------------------------------
(* Events: the calls made on the collaborators *)

NoEv ==
    [ ev |-> "", op |-> "", level |-> "", text |-> "", url |-> <<>>,
      err |-> NoError, h |-> 0, dm |-> 0, force |-> FALSE ]

\* the host calls prepare/release; the call returns or throws
Enter(o) == [NoEv EXCEPT !.ev = "enter", !.op = o]
Return(o) == [NoEv EXCEPT !.ev = "exit", !.op = o, !.level = "returned"]
Throw(o, e) == [NoEv EXCEPT !.ev = "exit", !.op = o, !.level = "threw", !.err = e]

\* kernel.sv("log", "sequelize", level, text ++ url), url being what the
\* template interpolates after text
Log(lvl, t, u) == [NoEv EXCEPT !.ev = "log", !.level = lvl, !.text = t, !.url = u]

\* kernel.sv("fatal", text ++ url ++ ": " ++ err)
Fatal(t, u, e) == [NoEv EXCEPT !.ev = "fatal", !.text = t, !.url = u, !.err = e]

\* a call on handle h: new Sequelize, authenticate, sync, close; the
\* broadcast of the hook with h ("hook") and its return ("hookret")
Call(name, handle) == [NoEv EXCEPT !.ev = name, !.h = handle]

\* the promise of call `name` on handle h is fulfilled, or rejected with e
Resolved(name, handle) == [NoEv EXCEPT !.ev = "resolved", !.op = name, !.h = handle]
Rejected(name, handle, e) ==
    [NoEv EXCEPT !.ev = "rejected", !.op = name, !.h = handle, !.err = e]

MsgOpened == "opened database connection to "
MsgOpenFailed == "failed to open database connection to "
MsgRecreated == "(re)created database schema from scratch"
MsgSynchronized == "synchronized existing database schema"
MsgSyncFailed == "failed to synchronize database schema: "
MsgClosing == "closing database connection"

----------------------------------------------------------------------------
(* Pure parts of prepare and release *)

\* PrepareSkipped that skips a worker process too
PrepareSkippedOrWorker(o) == o.daemon \/ o.daemon_kill \/ procmode = "worker"

\* PrepareSkipped with the daemon_kill flag forgotten
PrepareSkippedDaemonOnly(o) == o.daemon

\* prepare's guard "we operate only in non daemonized mode"
PrepareSkipped(o) == o.daemon \/ o.daemon_kill

\* ReleaseSkipped with the daemon_kill flag forgotten
ReleaseSkippedDaemonOnly(o) == o.daemon

\* release's guard "we operate only in non daemonized mode"
ReleaseSkipped(o) == o.daemon \/ o.daemon_kill

\* Configure that leaves the credentials in place for sqlite
ConfigureKeepsCredentials(o) == o

\* the options record after the dialect branch: sqlite clears the credentials
\* in the shared record itself
Configure(o) ==
    IF o.db_dialect = "sqlite"
    THEN [o EXCEPT !.db_username = "", !.db_password = ""]
    ELSE o

\* the pool options handed to Sequelize: the option values as they are
PoolOptions(o) ==
    [ min     |-> o.db_pool_min,
      max     |-> o.db_pool_max,
      idle    |-> o.db_pool_idle,
      acquire |-> o.db_pool_acquire,
      evict   |-> o.db_pool_evict ]

\* white space, as the regular expressions' \s sees it
Whitespace == {" ", "\t"}

\* the first position from i on that holds no white space (Len(s) + 1: none)
RECURSIVE SkipSpaces(_, _)
SkipSpaces(s, i) ==
    IF i <= Len(s) /\ s[i] \in Whitespace THEN SkipSpaces(s, i + 1) ELSE i

\* s.split(/\s*,\s*/) from position i on, cur being the item collected so far:
\* a comma with the white space around it ends the item
RECURSIVE SplitFrom(_, _, _)
SplitFrom(s, i, cur) ==
    IF i > Len(s) THEN <<cur>>
    ELSE LET j == SkipSpaces(s, i)
         IN  IF j <= Len(s) /\ s[j] = ","
             THEN <<cur>> \o SplitFrom(s, SkipSpaces(s, j + 1), <<>>)
             ELSE SplitFrom(s, i + 1, Append(cur, s[i]))

\* s.split(/\s*,\s*/)
SplitCommas(s) == SplitFrom(s, 1, <<>>)

\* RetryOptions with the match option taken as one matcher, not split
RetryOptionsUnsplit(o) ==
    [ max |-> o.db_query_retry_max, match |-> <<o.db_query_retry_match>> ]

\* the retry options handed to Sequelize
RetryOptions(o) ==
    [ max |-> o.db_query_retry_max, match |-> SplitCommas(o.db_query_retry_match) ]

\* msg.match(/FROM\s+pg_class/): FROM, white space, pg_class somewhere in msg
MatchesPgClass(msg) ==
    \E i \in 1..Len(msg) : \E j \in (i + 2)..Len(msg) :
        /\ msg[i] = "FROM"
        /\ msg[j] = "pg_class"
        /\ \A k \in (i + 1)..(j - 1) : msg[k] \in Whitespace

\* Logging without the filter
LoggingUnfiltered(msg) == <<Log("debug", "DB: ", msg)>>

\* options.logging: what the callback sends to the log service for msg
Logging(msg) ==
    IF ~MatchesPgClass(msg) THEN <<Log("debug", "DB: ", msg)>> ELSE <<>>

\* the handle new Sequelize(database, username, password, options) builds,
\* from the record the dialect branch left
NewHandle(o) ==
    [ database |-> o.db_database,
      username |-> o.db_username,
      password |-> o.db_password,
      dialect  |-> o.db_dialect,
      host     |-> IF o.db_dialect = "sqlite" THEN "" ELSE o.db_host,
      port     |-> IF o.db_dialect = "sqlite" THEN "" ELSE ToString(o.db_port),
      storage  |-> IF o.db_dialect = "sqlite" THEN o.db_database ELSE Undefined,
      pool     |-> PoolOptions(o),
      retry    |-> RetryOptions(o),
      models   |-> {},
      closes   |-> 0 ]

\* BuildUrl with the credentials in the url: user:password@host
BuildUrlWithPassword(o) ==
    IF o.db_dialect = "sqlite"
    THEN <<o.db_dialect, "://", o.db_database>>
    ELSE <<o.db_dialect, "://", o.db_username, ":", o.db_password, "@", o.db_host,
           ":", ToString(o.db_port), "/", o.db_database>>

\* the url template literals, as the sequence of their pieces
BuildUrl(o) ==
    IF o.db_dialect = "sqlite"
    THEN <<o.db_dialect, "://", o.db_database>>
    ELSE <<o.db_dialect, "://", o.db_username, "@", o.db_host, ":",
           ToString(o.db_port), "/", o.db_database>>

\* SyncWanted with the process mode ignored
SyncWantedAlways(mode) == TRUE

\* the guard of the synchronization block
SyncWanted(mode) == mode # "worker"

\* Force with the schema-drop option ignored
ForceAlways(o) == TRUE

\* the force flag handed to db.sync
Force(o) == IF o.db_schema_drop THEN TRUE ELSE FALSE

\* the info message after a successful sync
SyncMessage(o) == IF o.db_schema_drop THEN MsgRecreated ELSE MsgSynchronized

\* what db.sync({ force }) does to the database: every model defined on the
\* handle is dropped and recreated under force, created if missing otherwise
SyncTables(t, models, force) ==
    [n \in Names |->
        IF n \in models /\ (force \/ t[n] = "absent") THEN "fresh" ELSE t[n]]

\* AuthFailed without the report on the fatal channel
AuthFailedUnreported(u, e) == <<Throw("prepare", e)>>

\* AuthFailed with the error swallowed after the report
AuthFailedSwallowed(u, e) == <<Fatal(MsgOpenFailed, u, e), Return("prepare")>>

\* what the catch handler of db.authenticate() does: report, rethrow
AuthFailed(u, e) == <<Fatal(MsgOpenFailed, u, e), Throw("prepare", e)>>

\* what the then handler of db.authenticate() does
AuthSucceeded(u) == <<Log("info", MsgOpened, u)>>

\* SyncFailed without the report on the fatal channel
SyncFailedUnreported(e) == <<Throw("prepare", e)>>

\* what the rejection handler of db.sync() does: report, rethrow
SyncFailed(e) == <<Fatal(MsgSyncFailed, <<>>, e), Throw("prepare", e)>>

\* what the fulfilment handler of db.sync() does
SyncSucceeded(o) == <<Log("info", SyncMessage(o), <<>>)>>

\* NewSchemaModel that keeps the schema model of an earlier prepare
NewSchemaModelReused(d) == IF d = <<>> THEN Append(d, {}) ELSE d

\* the schema model objects after prepare has created one more: {}
NewSchemaModel(d) == Append(d, {})

\* Publish that leaves the slot as it was
PublishNothing(r, slot, id) == r

\* kernel.rs(slot, value): publish value in the slot
Publish(r, slot, id) == [r EXCEPT ![slot] = id]

NoFrame == [db |-> 0, dm |-> 0, url |-> <<>>, force |-> FALSE]
Ended(o, r, e) == [op |-> o, result |-> r, err |-> e]

----------------------------------------------------------------------------
(* Initial state: nothing constructed, no slot set, any configuration *)

\* the database before the process starts: one schema object exists already
\* ("kept": with its rows), the other is missing
InitialTables == [n \in Names |-> IF n = "Session" THEN "kept" ELSE "absent"]

\* no database operation is running, the driver has logged nothing
NoQuery == [options |-> [max |-> 0, match |-> <<>>], script |-> <<>>,
            attempts |-> 0, result |-> "none", err |-> <<>>]
NoDriver == [stmt |-> <<>>, called |-> FALSE, sink |-> <<>>]

\* prepare has not been called
Unprepared ==
    /\ rs = [db |-> 0, dm |-> 0]
    /\ handles = <<>>
    /\ dms = <<>>
    /\ tables = InitialTables
    /\ pc = "idle"
    /\ frame = NoFrame
    /\ hk = 0
    /\ last = Ended("none", "none", NoError)
    /\ events = <<>>
    /\ calls = 0

Init ==
    /\ opts \in Options
    /\ config = opts
    /\ qry = NoQuery
    /\ drv = NoDriver
    /\ procmode \in ProcModes
    /\ Unprepared

----------------------------------------------------------------------------
(* prepare *)

\* prepare up to its first suspension, await db.authenticate()
Prepare ==
    /\ pc = "idle"
    /\ calls < MaxCalls
    /\ calls' = calls + 1
    /\ \/ /\ PrepareSkipped(opts)
          /\ events' = <<Enter("prepare"), Return("prepare")>>
          /\ last' = Ended("prepare", "returned", NoError)
          /\ UNCHANGED <<opts, rs, handles, pc, frame>>
       \/ /\ ~PrepareSkipped(opts)
          /\ opts' = Configure(opts)
          /\ \E e \in CtorErrors :
                /\ events' = <<Enter("prepare"), Throw("prepare", e)>>
                /\ last' = Ended("prepare", "threw", e)
          /\ UNCHANGED <<rs, handles, pc, frame>>
       \/ /\ ~PrepareSkipped(opts)
          /\ opts' = Configure(opts)
          /\ handles' = Append(handles, NewHandle(opts'))
          /\ rs' = Publish(rs, "db", Len(handles'))
          /\ frame' = [NoFrame EXCEPT !.db = Len(handles'), !.url = BuildUrl(opts')]
          /\ events' = <<Enter("prepare"), Call("new", Len(handles')),
                                   Call("authenticate", Len(handles'))>>
          /\ pc' = "authenticate"
          /\ UNCHANGED last
    /\ UNCHANGED <<procmode, dms, tables, hk, config, qry, drv>>

\* db.authenticate() resolves: log, create the schema model, start the broadcast
AuthResolves ==
    /\ pc = "authenticate"
    /\ dms' = NewSchemaModel(dms)
    /\ rs' = Publish(rs, "dm", Len(dms'))
    /\ frame' = [frame EXCEPT !.dm = Len(dms')]
    /\ events' = events \o <<Resolved("authenticate", frame.db)>>
                        \o AuthSucceeded(frame.url)
                        \o <<[Call("hook", frame.db) EXCEPT !.dm = Len(dms')]>>
    /\ hk' = 0
    /\ pc' = "hook"
    /\ UNCHANGED <<opts, procmode, handles, tables, last, calls, config, qry, drv>>

\* AuthRejects that closes the handle and clears slot db before it throws
AuthRejectsCleansUp ==
    /\ pc = "authenticate"
    /\ \E e \in AuthErrors :
          /\ events' = events \o <<Rejected("authenticate", frame.db, e)>>
                              \o <<Call("close", frame.db)>>
                              \o AuthFailed(frame.url, e)
          /\ last' = Ended("prepare", "threw", e)
    /\ handles' = [handles EXCEPT ![frame.db].closes = @ + 1]
    /\ rs' = [rs EXCEPT !.db = 0]
    /\ pc' = "idle"
    /\ frame' = NoFrame
    /\ UNCHANGED <<opts, procmode, dms, tables, hk, calls, config, qry, drv>>

\* db.authenticate() rejects
AuthRejects ==
    /\ pc = "authenticate"
    /\ \E e \in AuthErrors :
          /\ events' = events \o <<Rejected("authenticate", frame.db, e)>>
                              \o AuthFailed(frame.url, e)
          /\ last' = Ended("prepare", "threw", e)
    /\ pc' = "idle"
    /\ frame' = NoFrame
    /\ UNCHANGED <<opts, procmode, rs, handles, dms, tables, hk, calls, config, qry, drv>>

\* the next registered participant of "sequelize:ddl" runs with (db, dm)
Participant ==
    /\ pc = "hook"
    /\ hk < NumParticipants
    /\ \/ /\ dms' = [dms EXCEPT ![frame.dm] = @ \cup {NameOf(hk + 1)}]
          /\ handles' = [handles EXCEPT ![frame.db].models = @ \cup {NameOf(hk + 1)}]
          /\ hk' = hk + 1
          /\ UNCHANGED <<pc, frame, last, events>>
       \/ /\ hk' = hk + 1
          /\ UNCHANGED <<dms, handles, pc, frame, last, events>>
       \/ /\ \E e \in HookErrors :
                /\ events' = events \o <<Throw("prepare", e)>>
                /\ last' = Ended("prepare", "threw", e)
          /\ pc' = "idle"
          /\ frame' = NoFrame
          /\ hk' = 0
          /\ UNCHANGED <<dms, handles>>
    /\ UNCHANGED <<opts, procmode, rs, tables, calls, config, qry, drv>>

\* HookReturns with db.sync() called but not awaited
HookReturnsNoAwait ==
    /\ pc = "hook"
    /\ hk = NumParticipants
    /\ events' = events \o
          (IF SyncWanted(procmode)
           THEN <<Call("hookret", frame.db),
                  [Call("sync", frame.db) EXCEPT !.force = Force(opts)],
                  Return("prepare")>>
           ELSE <<Call("hookret", frame.db), Return("prepare")>>)
    /\ last' = Ended("prepare", "returned", NoError)
    /\ frame' = NoFrame
    /\ pc' = "idle"
    /\ hk' = 0
    /\ UNCHANGED <<opts, procmode, rs, handles, dms, tables, calls, config, qry, drv>>

\* kernel.hook returns: synchronize unless this is a worker
HookReturns ==
    /\ pc = "hook"
    /\ hk = NumParticipants
    /\ \/ /\ SyncWanted(procmode)
          /\ events' = events \o <<Call("hookret", frame.db),
                                   [Call("sync", frame.db) EXCEPT !.force = Force(opts)]>>
          /\ frame' = [frame EXCEPT !.force = Force(opts)]
          /\ pc' = "sync"
          /\ UNCHANGED last
       \/ /\ ~SyncWanted(procmode)
          /\ events' = events \o <<Call("hookret", frame.db), Return("prepare")>>
          /\ last' = Ended("prepare", "returned", NoError)
          /\ frame' = NoFrame
          /\ pc' = "idle"
    /\ hk' = 0
    /\ UNCHANGED <<opts, procmode, rs, handles, dms, tables, calls, config, qry, drv>>

\* db.sync() resolves
SyncResolves ==
    /\ pc = "sync"
    /\ tables' = SyncTables(tables, handles[frame.db].models, frame.force)
    /\ events' = events \o <<Resolved("sync", frame.db)>>
                        \o SyncSucceeded(opts) \o <<Return("prepare")>>
    /\ last' = Ended("prepare", "returned", NoError)
    /\ frame' = NoFrame
    /\ pc' = "idle"
    /\ UNCHANGED <<opts, procmode, rs, handles, dms, hk, calls, config, qry, drv>>

\* db.sync() rejects
SyncRejects ==
    /\ pc = "sync"
    /\ \E e \in SyncErrors :
          /\ events' = events \o <<Rejected("sync", frame.db, e)>> \o SyncFailed(e)
          /\ last' = Ended("prepare", "threw", e)
    /\ frame' = NoFrame
    /\ pc' = "idle"
    /\ UNCHANGED <<opts, procmode, rs, handles, dms, tables, hk, calls, config, qry, drv>>

----------------------------------------------------------------------------
(* release *)

\* Release with a guard against a handle that was closed before
ReleaseOnce ==
    /\ pc = "idle"
    /\ last.op # "none"
    /\ calls < MaxCalls
    /\ calls' = calls + 1
    /\ IF ReleaseSkipped(opts) \/ (rs.db # 0 /\ handles[rs.db].closes > 0)
       THEN /\ events' = <<Enter("release"), Return("release")>>
            /\ last' = Ended("release", "returned", NoError)
            /\ UNCHANGED <<handles, pc, frame>>
       ELSE IF rs.db = 0
       THEN /\ events' = <<Enter("release"), Log("info", MsgClosing, <<>>),
                           Throw("release", TypeError)>>
            /\ last' = Ended("release", "threw", TypeError)
            /\ UNCHANGED <<handles, pc, frame>>
       ELSE /\ events' = <<Enter("release"), Log("info", MsgClosing, <<>>),
                           Call("close", rs.db)>>
            /\ handles' = [handles EXCEPT ![rs.db].closes = @ + 1]
            /\ frame' = [NoFrame EXCEPT !.db = rs.db]
            /\ pc' = "close"
            /\ UNCHANGED last
    /\ UNCHANGED <<opts, procmode, rs, dms, tables, hk, config, qry, drv>>

\* release up to its suspension, await db.close(); the host releases only
\* what it has prepared
Release ==
    /\ pc = "idle"
    /\ last.op # "none"
    /\ calls < MaxCalls
    /\ calls' = calls + 1
    /\ \/ /\ ReleaseSkipped(opts)
          /\ events' = <<Enter("release"), Return("release")>>
          /\ last' = Ended("release", "returned", NoError)
          /\ UNCHANGED <<handles, pc, frame>>
       \/ /\ ~ReleaseSkipped(opts)
          /\ rs.db = 0
          /\ events' = <<Enter("release"), Log("info", MsgClosing, <<>>),
                                   Throw("release", TypeError)>>
          /\ last' = Ended("release", "threw", TypeError)
          /\ UNCHANGED <<handles, pc, frame>>
       \/ /\ ~ReleaseSkipped(opts)
          /\ rs.db # 0
          /\ events' = <<Enter("release"), Log("info", MsgClosing, <<>>),
                                   Call("close", rs.db)>>
          /\ handles' = [handles EXCEPT ![rs.db].closes = @ + 1]
          /\ frame' = [NoFrame EXCEPT !.db = rs.db]
          /\ pc' = "close"
          /\ UNCHANGED last
    /\ UNCHANGED <<opts, procmode, rs, dms, tables, hk, config, qry, drv>>

\* db.close() resolves
CloseResolves ==
    /\ pc = "close"
    /\ events' = events \o <<Resolved("close", frame.db), Return("release")>>
    /\ last' = Ended("release", "returned", NoError)
    /\ frame' = NoFrame
    /\ pc' = "idle"
    /\ UNCHANGED <<opts, procmode, rs, handles, dms, tables, hk, calls, config, qry, drv>>

\* db.close() on a handle that was closed before: what happens is not
\* defined, it may also reject
CloseRejects ==
    /\ pc = "close"
    /\ handles[frame.db].closes > 1
    /\ \E e \in CloseErrors :
          /\ events' = events \o <<Rejected("close", frame.db, e), Throw("release", e)>>
          /\ last' = Ended("release", "threw", e)
    /\ frame' = NoFrame
    /\ pc' = "idle"
    /\ UNCHANGED <<opts, procmode, rs, handles, dms, tables, hk, calls, config, qry, drv>>

----------------------------------------------------------------------------

Next ==
    \/ Prepare
    \/ AuthResolves
    \/ AuthRejects
    \/ Participant
    \/ HookReturns
    \/ SyncResolves
    \/ SyncRejects
    \/ Release
    \/ CloseResolves
    \/ CloseRejects

Spec == Init /\ [][Next]_vars

----------------------------------------------------------------------------
(* The retry policy: a database operation run under the retry options that
   prepare hands to Sequelize.  The loop itself is Sequelize's; it is
   modelled as the specification describes it (4.3 Retry Policy). *)

\* the values of db-query-retry-match tried
RetryMatches ==
    { <<"SQLITE_BUSY">>,
      <<"SQLITE_BUSY", ",", "SQLITE_LOCKED">>,
      <<"SQLITE_BUSY", " ", ",", " ", "SQLITE_LOCKED">> }

\* how an attempt may end: without an error, or with one of these
NoFailure == <<>>
BusyError == <<"Error: ", "SQLITE_BUSY", ": database is locked">>
LockedError == <<"Error: ", "SQLITE_LOCKED", ": table is locked">>
ConstraintError == <<"Error: ", "SQLITE_CONSTRAINT", ": UNIQUE failed">>
Outcomes == {NoFailure, BusyError, LockedError, ConstraintError}

\* the matcher's text occurs in the error's
Occurs(m, e) ==
    \E i \in 0..(Len(e) - Len(m)) : SubSeq(e, i + 1, i + Len(m)) = m

\* the policy's decision after attempt n failed with e
ShouldRetry(options, e, n) ==
    /\ \E k \in 1..Len(options.match) : Occurs(options.match[k], e)
    /\ n < options.max

\* an operation starts: its attempts will end as the script says
RetryInit ==
    /\ opts \in {o \in OptionsWith({5}, 1..MaxRetry, RetryMatches) :
                    /\ ~o.daemon /\ ~o.daemon_kill /\ ~o.db_schema_drop
                    /\ o.db_dialect = "sqlite"}
    /\ config = opts
    /\ procmode = "standalone"
    /\ \E script \in [1..MaxRetry -> Outcomes] :
          qry = [options |-> RetryOptions(opts), script |-> script,
                 attempts |-> 0, result |-> "pending", err |-> <<>>]
    /\ drv = NoDriver
    /\ Unprepared

\* the next attempt of the operation
Attempt ==
    /\ qry.result = "pending"
    /\ LET n == qry.attempts + 1
           e == qry.script[n]
       IN  \/ /\ e = NoFailure
              /\ qry' = [qry EXCEPT !.attempts = n, !.result = "ok"]
           \/ /\ e # NoFailure
              /\ ShouldRetry(qry.options, e, n)
              /\ qry' = [qry EXCEPT !.attempts = n]
           \/ /\ e # NoFailure
              /\ ~ShouldRetry(qry.options, e, n)
              /\ qry' = [qry EXCEPT !.attempts = n, !.result = "error", !.err = e]
    /\ UNCHANGED <<opts, procmode, rs, handles, dms, tables, pc, frame, hk, last,
                   events, calls, config, drv>>

RetrySpec == RetryInit /\ [][Attempt]_vars

----------------------------------------------------------------------------
(* The pool bounds: the lifecycle, started with a pool maximum of 0 or 5 *)

PoolInit ==
    /\ opts \in OptionsWith({0, 5}, {5}, {DefaultRetryMatch})
    /\ config = opts
    /\ qry = NoQuery
    /\ drv = NoDriver
    /\ procmode \in ProcModes
    /\ Unprepared

PoolSpec == PoolInit /\ [][Next]_vars

----------------------------------------------------------------------------
(* The logging callback: the driver passes it one statement *)

\* the pieces statements are made of
Pieces == {"SELECT", "FROM", " ", "\t", "pg_class"}

\* the statements: 1..MaxStmtLen pieces
Statements == UNION {[1..n -> Pieces] : n \in 1..MaxStmtLen}

LoggingInit ==
    /\ opts \in {o \in Options :
                    /\ ~o.daemon /\ ~o.daemon_kill /\ ~o.db_schema_drop
                    /\ o.db_dialect = "postgres"}
    /\ config = opts
    /\ procmode = "standalone"
    /\ qry = NoQuery
    /\ \E stmt \in Statements :
          drv = [stmt |-> stmt, called |-> FALSE, sink |-> <<>>]
    /\ Unprepared

\* the driver calls options.logging with its statement
DriverLogs ==
    /\ ~drv.called
    /\ drv' = [drv EXCEPT !.called = TRUE, !.sink = @ \o Logging(drv.stmt)]
    /\ UNCHANGED <<opts, procmode, rs, handles, dms, tables, pc, frame, hk,
                   last, events, calls, config, qry>>

LoggingSpec == LoggingInit /\ [][DriverLogs]_vars

----------------------------------------------------------------------------
(* Vocabulary of the properties *)

\* positions in events of the calls of one kind
Idx(kind) == {i \in 1..Len(events) : events[i].ev = kind}
Count(kind) == Cardinality(Idx(kind))

\* positions of a promise outcome of call `name`
Outcome(kind, name) ==
    {i \in 1..Len(events) : events[i].ev = kind /\ events[i].op = name}

\* events is the trace of a call of prepare / of release
InPrepare == events # <<>> /\ events[1] = Enter("prepare")
InRelease == events # <<>> /\ events[1] = Enter("release")

\* the call whose trace events is has ended
Exited == events # <<>> /\ events[Len(events)].ev = "exit"

\* the process is a daemon controller
DaemonController == opts.daemon \/ opts.daemon_kill

\* the connection url: dialect://user@host:port/db, sqlite://db for sqlite
ConnectionUrl ==
    IF opts.db_dialect = "sqlite"
    THEN <<"sqlite", "://", opts.db_database>>
    ELSE <<opts.db_dialect, "://", opts.db_username, "@", opts.db_host, ":",
           ToString(opts.db_port), "/", opts.db_database>>

\* the errors authenticate and sync reject with
LifecycleErrors == AuthErrors \cup SyncErrors

\* the log messages about the schema
SchemaMessages == {MsgRecreated, MsgSynchronized}

----------------------------------------------------------------------------
(* C1: in a run of prepare in a non-daemon process the steps occur only in
   the order authenticate, hook broadcast, schema sync, ready: the broadcast
   begins only after authenticate has resolved, sync is called only after
   the broadcast has returned, each at most once, and in a non-worker
   process prepare returns only after sync has resolved. *)
C1_LifecycleOrder ==
    (InPrepare /\ ~DaemonController) =>
        /\ Count("authenticate") <= 1 /\ Count("hook") <= 1 /\ Count("sync") <= 1
        /\ \A i \in Idx("hook") :
              \E j \in 1..(i - 1) : events[j] = Resolved("authenticate", events[i].h)
        /\ \A i \in Idx("hookret") : \E j \in 1..(i - 1) : events[j].ev = "hook"
        /\ \A i \in Idx("sync") : \E j \in 1..(i - 1) : events[j].ev = "hookret"
        /\ \A i \in Idx("authenticate") : \A j \in Idx("hook") \cup Idx("sync") : i < j
        /\ \A i \in 1..Len(events) :
              (events[i] = Return("prepare") /\ procmode # "worker") =>
                  \E j \in 1..(i - 1) : events[j].ev = "resolved" /\ events[j].op = "sync"

\* a non-worker, non-daemon prepare has run through all the steps and returned
C1_Witness ==
    /\ InPrepare /\ ~DaemonController /\ procmode # "worker"
    /\ events[Len(events)] = Return("prepare")
    /\ Count("authenticate") = 1 /\ Count("hook") = 1 /\ Count("sync") = 1

(* C2: in a daemon controller (daemon or daemon_kill set) prepare returns at
   once: no handle is constructed, the slots db and dm stay undefined, there
   is no authenticate, no schema model, no hook, no sync and no log. *)
C2_DaemonSkipsPrepare ==
    DaemonController =>
        /\ handles = <<>> /\ dms = <<>>
        /\ rs.db = 0 /\ rs.dm = 0
        /\ InPrepare => events = <<Enter("prepare"), Return("prepare")>>
        /\ \A i \in 1..Len(events) :
              events[i].ev \notin {"new", "authenticate", "hook", "sync", "log", "fatal"}

\* prepare has returned in a process with only daemon_kill set
C2_Witness ==
    /\ opts.daemon_kill /\ ~opts.daemon
    /\ last = Ended("prepare", "returned", NoError)
    /\ InPrepare /\ Exited

(* C3: in a worker process prepare never calls sync, whatever the schema-drop
   flag: no schema object is dropped or created, no message about the schema
   is logged and no sync failure is reported. *)
C3_WorkerNeverSyncs ==
    procmode = "worker" =>
        /\ Count("sync") = 0
        /\ Outcome("resolved", "sync") = {} /\ Outcome("rejected", "sync") = {}
        /\ \A i \in 1..Len(events) :
              events[i].text \notin SchemaMessages \cup {MsgSyncFailed}
        /\ \A n \in Names : tables[n] # "fresh"

\* a worker with the schema-drop flag set has completed prepare, the hook
\* participants having defined schema objects
C3_Witness ==
    /\ procmode = "worker" /\ ~DaemonController /\ opts.db_schema_drop
    /\ InPrepare /\ events[Len(events)] = Return("prepare")
    /\ rs.db # 0 /\ handles[rs.db].models = Names

(* C4: when authenticate rejects with an error, that error is reported once
   on the fatal channel, with the connection url, and the same error is
   thrown to the caller of prepare; authenticate was called once, and no
   hook broadcast, no sync and no 'opened database connection' message
   follow. *)
C4_AuthFailureIsFatal ==
    \A i \in Outcome("rejected", "authenticate") :
        /\ Len(events) = i + 2
        /\ events[i + 1].ev = "fatal"
        /\ events[i + 1].text = MsgOpenFailed
        /\ events[i + 1].err = events[i].err
        /\ events[i + 1].url = ConnectionUrl
        /\ events[i + 2] = Throw("prepare", events[i].err)
        /\ Count("fatal") = 1
        /\ Count("authenticate") = 1
        /\ Count("hook") = 0 /\ Count("sync") = 0
        /\ \A j \in 1..Len(events) : events[j].text # MsgOpened
        /\ pc = "idle"

\* authenticate has been rejected
C4_Witness ==
    /\ Outcome("rejected", "authenticate") # {}
    /\ last.op = "prepare" /\ last.result = "threw" /\ last.err \in AuthErrors

(* C5: when sync rejects with an error, that error is reported once on the
   fatal channel and the same error is thrown to the caller of prepare, as for
   authenticate; sync was called once, no message about the schema is logged
   and prepare does not return. *)
C5_SyncFailureIsFatal ==
    \A i \in Outcome("rejected", "sync") :
        /\ Len(events) = i + 2
        /\ events[i + 1] = Fatal(MsgSyncFailed, <<>>, events[i].err)
        /\ events[i + 2] = Throw("prepare", events[i].err)
        /\ Count("fatal") = 1
        /\ Count("sync") = 1
        /\ \A j \in 1..Len(events) :
              /\ events[j].text \notin SchemaMessages
              /\ events[j] # Return("prepare")
        /\ last = Ended("prepare", "threw", events[i].err)

\* sync has been rejected
C5_Witness ==
    /\ Outcome("rejected", "sync") # {}
    /\ last.op = "prepare" /\ last.result = "threw" /\ last.err \in SyncErrors


(* C6, as claimed: a fatal message is emitted if and only if authenticate or
   sync failed, at most one per call of prepare, and every call of prepare
   that ends with an error thrown to the host has emitted exactly one fatal
   message, errors of hook participants and of the construction of the
   handle included. *)
C6_EveryErrorIsReported ==
    /\ InRelease => Count("fatal") = 0
    /\ InPrepare =>
          /\ Count("fatal") <= 1
          /\ Count("fatal") = 1 <=>
                Outcome("rejected", "authenticate") \cup Outcome("rejected", "sync") # {}
          /\ (Exited /\ events[Len(events)].level = "threw") => Count("fatal") = 1

(* C6, amended: a fatal message is emitted if and only if authenticate or
   sync failed, at most one per call of prepare and none by release, right
   after the rejection and with its error; a call of prepare that ends with
   the error of authenticate or sync has emitted exactly one fatal message,
   and one that ends with another error (a hook participant's, the
   constructor's) has emitted none. *)
C6_FatalOnlyForAuthAndSync ==
    /\ InRelease => Count("fatal") = 0
    /\ InPrepare =>
          /\ Count("fatal") <= 1
          /\ Count("fatal") = 1 <=>
                Outcome("rejected", "authenticate") \cup Outcome("rejected", "sync") # {}
          /\ \A i \in Idx("fatal") :
                /\ i > 1
                /\ events[i - 1].ev = "rejected"
                /\ events[i - 1].op \in {"authenticate", "sync"}
                /\ events[i - 1].err = events[i].err
          /\ (Exited /\ events[Len(events)].level = "threw") =>
                Count("fatal") = IF events[Len(events)].err \in LifecycleErrors THEN 1 ELSE 0

\* prepare has thrown the error of a hook participant, without a fatal message
C6_Witness ==
    /\ InPrepare /\ Exited
    /\ events[Len(events)].level = "threw"
    /\ events[Len(events)].err \in HookErrors
    /\ Count("hook") = 1 /\ Count("fatal") = 0

(* C7, as claimed: the slot db holds a handle only once the lifecycle has
   reached Ready: not while prepare is authenticating, extending the schema
   or synchronizing, and not after prepare has failed in authenticate or
   sync. *)
C7_SlotsOnlyWhenReady ==
    /\ pc \in {"authenticate", "hook", "sync"} => rs.db = 0
    /\ (last.op = "prepare" /\ last.result = "threw" /\ last.err \in LifecycleErrors)
          => rs.db = 0

(* C7, amended: the slot db holds the handle from the moment prepare has
   constructed it, before authenticate: while authenticating, extending the
   schema and synchronizing, and still after a failure of authenticate or
   sync.  The slot dm holds the schema model from the moment authenticate has
   succeeded: while extending the schema and synchronizing, and still after a
   failure of sync.  Before the first prepare both slots are undefined, and
   dm stays undefined until an authenticate has succeeded. *)
C7_SlotsPublishedBeforeReady ==
    /\ pc \in {"authenticate", "hook", "sync"} => (rs.db # 0 /\ rs.db = frame.db)
    /\ pc \in {"hook", "sync"} => (rs.dm # 0 /\ rs.dm = frame.dm)
    /\ (last.op = "prepare" /\ last.result = "threw" /\ last.err \in LifecycleErrors)
          => rs.db # 0
    /\ (last.op = "prepare" /\ last.result = "threw" /\ last.err \in SyncErrors)
          => rs.dm # 0
    /\ (last.op = "none" /\ pc = "idle") => (rs.db = 0 /\ rs.dm = 0)
    /\ (pc = "authenticate" /\ Len(handles) = 1) => rs.dm = 0
    /\ (InPrepare /\ Len(handles) = 1 /\ Outcome("rejected", "authenticate") # {})
          => rs.dm = 0

\* the first prepare has failed in authenticate: db is published, dm is not
C7_Witness ==
    /\ last.op = "prepare" /\ last.result = "threw" /\ last.err \in AuthErrors
    /\ Len(handles) = 1
    /\ rs.db = 1 /\ rs.dm = 0

(* C8: release is skipped exactly when prepare is (daemon or daemon_kill
   set): a skipped call logs nothing and closes nothing; a call that is not
   skipped logs 'closing database connection' and then calls close on the
   handle in slot db; and close is called if and only if a prepare has
   constructed and published a handle. *)
C8_ReleaseMirrorsPrepare ==
    /\ InPrepare => (DaemonController <=> events = <<Enter("prepare"), Return("prepare")>>)
    /\ InRelease =>
          /\ DaemonController <=> events = <<Enter("release"), Return("release")>>
          /\ ~DaemonController =>
                /\ Len(events) >= 3
                /\ events[2] = Log("info", MsgClosing, <<>>)
                /\ Idx("close") \subseteq {3}
                /\ Count("log") = 1
                /\ (Idx("close") # {}) <=> (handles # <<>>)
                /\ (Idx("close") # {}) <=> (rs.db # 0)
                /\ \A i \in Idx("close") : events[i] = Call("close", rs.db)
    /\ (handles # <<>> \/ rs.db # 0) => ~DaemonController

\* release has logged and closed the handle prepare published
C8_Witness ==
    /\ InRelease /\ ~DaemonController
    /\ Len(events) >= 3 /\ events[3] = Call("close", rs.db)
    /\ handles[rs.db].closes = 1
    /\ last = Ended("release", "returned", NoError)

(* C9: sync is called with force equal to the schema-drop option.  With the
   option set, a successful sync has dropped and recreated every schema
   object defined on the handle and logs '(re)created database schema from
   scratch'; without it, a successful sync leaves existing objects untouched,
   has created the missing ones and logs 'synchronized existing database
   schema'; exactly one of the two messages is logged per successful sync. *)
C9_ForceIsSchemaDrop ==
    /\ [](/\ \A i \in Idx("sync") : events[i].force = opts.db_schema_drop
          /\ \A i \in Outcome("resolved", "sync") :
                /\ Len(events) >= i + 1
                /\ events[i + 1] =
                      Log("info", IF opts.db_schema_drop THEN MsgRecreated
                                  ELSE MsgSynchronized, <<>>)
                /\ Cardinality({j \in 1..Len(events) : events[j].text \in SchemaMessages}) = 1
                /\ \A n \in handles[events[i].h].models :
                      IF opts.db_schema_drop THEN tables[n] = "fresh"
                      ELSE tables[n] # "absent"
          /\ (Outcome("resolved", "sync") = {}) =>
                \A j \in 1..Len(events) : events[j].text \notin SchemaMessages)
    /\ [][/\ ~opts.db_schema_drop =>
                \A n \in Names : tables[n] = "kept" => tables'[n] = "kept"
          /\ \A n \in Names :
                tables'[n] # tables[n] =>
                    /\ pc = "sync" /\ tables'[n] = "fresh"
                    /\ n \in handles[frame.db].models]_vars

\* a sync without force has succeeded: the object that was missing has been
\* created, the one that existed is untouched
C9_Witness ==
    /\ ~opts.db_schema_drop
    /\ InPrepare /\ Outcome("resolved", "sync") # {}
    /\ handles[rs.db].models = Names
    /\ tables["Account"] = "fresh" /\ tables["Session"] = "kept"

(* C10: for a dialect other than sqlite the url that prepare builds, and uses
   in the 'opened' message and in the fatal message of authenticate, is
   dialect://user@host:port/db, made of the dialect, the user name, the host,
   the port and the database name only: the password is no part of it.  For
   sqlite it is sqlite://database. *)
C10_UrlWithoutPassword ==
    /\ pc = "authenticate" => frame.url = ConnectionUrl
    /\ \A i \in 1..Len(events) :
          events[i].text \in {MsgOpened, MsgOpenFailed} =>
              /\ events[i].url = ConnectionUrl
              /\ \A k \in 1..Len(events[i].url) : events[i].url[k] \notin Passwords
              /\ Len(events[i].url) = IF opts.db_dialect = "sqlite" THEN 3 ELSE 9

\* authenticate has failed for a dialect other than sqlite, and the fatal
\* message carries the url
C10_Witness ==
    /\ opts.db_dialect # "sqlite"
    /\ \E i \in Idx("fatal") :
          /\ events[i].text = MsgOpenFailed
          /\ events[i].url = <<opts.db_dialect, "://", "admin", "@", "localhost", ":",
                               "5432", "/", "example">>


(* C11: for sqlite the handle is constructed with host, port, user name and
   password all empty and with the storage path equal to the configured
   database name, whatever the configuration held for them; for any other
   dialect the host and the port of the handle are the configured db-host and
   db-port, and the user name and the password are the configured ones. *)
C11_HandleArguments ==
    \A h \in 1..Len(handles) :
        /\ handles[h].dialect = config.db_dialect
        /\ handles[h].database = config.db_database
        /\ IF config.db_dialect = "sqlite"
           THEN /\ handles[h].host = "" /\ handles[h].port = ""
                /\ handles[h].username = "" /\ handles[h].password = ""
                /\ handles[h].storage = config.db_database
           ELSE /\ handles[h].host = config.db_host
                /\ handles[h].port = ToString(config.db_port)
                /\ handles[h].username = config.db_username
                /\ handles[h].password = config.db_password
                /\ handles[h].storage = Undefined

\* a handle has been constructed for sqlite from a configuration that holds
\* a host, a port, a user name and a password
C11_Witness ==
    /\ config.db_dialect = "sqlite"
    /\ config.db_username = "admin" /\ config.db_password = "secret"
    /\ config.db_host = "localhost" /\ config.db_port = 5432
    /\ Len(handles) >= 1
    /\ handles[1].storage = "example" /\ handles[1].username = ""

(* C12: prepare leaves every field of the shared options record as the
   host's option system produced it, for every dialect and process mode. *)
C12_OptionsUnchanged == opts = config


\* the matchers a value of db-query-retry-match configures: the items of
\* the comma-separated list
ConfiguredMatchers(m) ==
    IF m = <<"SQLITE_BUSY">> THEN {<<"SQLITE_BUSY">>}
    ELSE {<<"SQLITE_BUSY">>, <<"SQLITE_LOCKED">>}

\* the error carries the text of one of the configured matchers
IsRetryable(e) ==
    \E m \in ConfiguredMatchers(config.db_query_retry_match) :
        \E i \in 1..Len(e) : <<e[i]>> = m

(* C13: an operation whose error matches one of the configured matchers (the
   items of db-query-retry-match, split on commas) is retried until
   db-query-retry-max attempts have been made, and then the last error is
   propagated unchanged; an error that matches no matcher is never retried;
   with matcher SQLITE_BUSY and max 3, two matching failures and then a
   success give success after exactly 2 retries. *)
C13_RetryPolicy ==
    qry.result # "none" =>
        /\ qry.attempts <= config.db_query_retry_max
        /\ \A k \in 1..(qry.attempts - 1) : IsRetryable(qry.script[k])
        /\ qry.result = "pending" =>
              /\ qry.attempts < config.db_query_retry_max
              /\ qry.attempts > 0 => IsRetryable(qry.script[qry.attempts])
        /\ qry.result = "ok" => qry.script[qry.attempts] = NoFailure
        /\ qry.result = "error" =>
              /\ qry.err = qry.script[qry.attempts]
              /\ qry.err # NoFailure
              /\ IsRetryable(qry.err) => qry.attempts = config.db_query_retry_max
        /\ ( /\ config.db_query_retry_match = <<"SQLITE_BUSY">>
             /\ config.db_query_retry_max = 3
             /\ SubSeq(qry.script, 1, 3) = <<BusyError, BusyError, NoFailure>>
             /\ qry.result # "pending" )
           => (qry.result = "ok" /\ qry.attempts = 3)

\* with the matchers "SQLITE_BUSY, SQLITE_LOCKED" and max 3, a busy and a
\* locked failure were retried and the third attempt succeeded
C13_Witness ==
    /\ config.db_query_retry_match = <<"SQLITE_BUSY", " ", ",", " ", "SQLITE_LOCKED">>
    /\ config.db_query_retry_max = 3
    /\ SubSeq(qry.script, 1, 3) = <<BusyError, LockedError, NoFailure>>
    /\ qry.result = "ok" /\ qry.attempts = 3


(* C14: with a pool maximum of 0 prepare reports a configuration error before
   any attempt to authenticate: it never calls authenticate, never broadcasts
   the hook and never synchronizes. *)
C14_PoolMaxZeroFailsFast ==
    config.db_pool_max = 0 =>
        /\ Count("authenticate") = 0
        /\ Count("hook") = 0
        /\ Count("sync") = 0


(* C15: the hook "sequelize:ddl" is broadcast once in a call of prepare in
   which authenticate succeeded, in a worker as in any other process, and not
   at all otherwise.  It is passed the handle published in slot db and the
   schema model published in slot dm, which was created just before and is
   empty when the broadcast begins.  Once the broadcast is over the module
   writes nothing to a schema model: a schema model changes only during the
   broadcast, and a new one is created, empty, only when authenticate has
   resolved. *)
C15_HookOncePerAuthenticatedStart ==
    /\ [](/\ InRelease => Count("hook") = 0
          /\ InPrepare =>
                /\ Count("hook") = Cardinality(Outcome("resolved", "authenticate"))
                /\ Count("hook") <= 1
                /\ \A i \in Idx("hook") :
                      /\ events[i].h # 0 /\ events[i].h = rs.db
                      /\ events[i].dm # 0 /\ events[i].dm = rs.dm
                      /\ events[i].dm = Len(dms)
                      /\ \E j \in 1..(i - 1) :
                            events[j] = Resolved("authenticate", events[i].h)
          /\ (pc = "hook" /\ hk = 0) => dms[rs.dm] = {})
    /\ [][/\ Len(dms') >= Len(dms)
          /\ \A k \in 1..Len(dms) : dms'[k] # dms[k] => (pc = "hook" /\ k = frame.dm)
          /\ Len(dms') > Len(dms) =>
                /\ pc = "authenticate"
                /\ dms' = Append(dms, {})]_vars

\* a worker has completed a second prepare: its broadcast got a schema model
\* of its own, which the participants filled
C15_Witness ==
    /\ procmode = "worker"
    /\ InPrepare /\ events[Len(events)] = Return("prepare")
    /\ Count("hook") = 1
    /\ Len(dms) = 2 /\ rs.dm = 2
    /\ dms[1] = {"Account"} /\ dms[2] = Names

(* C16: release has no guard against repeated calls: in a process that is no
   daemon controller and has a handle in slot db, every call of release calls
   close on that handle once, whether it was closed before or not, so n calls
   of release make n calls of close on the same handle. *)
C16_ReleaseClosesEveryTime ==
    /\ []((InRelease /\ ~DaemonController /\ rs.db # 0) =>
             /\ Count("close") = 1
             /\ events[3] = Call("close", rs.db)
             /\ handles[rs.db].closes >= 1)
    /\ [][(/\ calls' = calls + 1
           /\ events'[1] = Enter("release")
           /\ ~DaemonController
           /\ rs.db # 0) =>
             /\ rs' = rs
             /\ handles'[rs.db].closes = handles[rs.db].closes + 1
             /\ events'[Len(events')] = Call("close", rs.db)]_vars

\* release has been called twice after one prepare: close has been called
\* twice on the same handle
C16_Witness ==
    /\ ~DaemonController
    /\ InRelease
    /\ calls = 3 /\ Len(handles) = 1 /\ rs.db = 1
    /\ handles[1].closes = 2
    /\ events[3] = Call("close", 1)


\* the statement holds FROM, then white space, then pg_class
IsCatalogProbe(stmt) ==
    \E i \in 1..Len(stmt) : \E n \in 1..Len(stmt) :
        /\ i + n + 1 <= Len(stmt)
        /\ stmt[i] = "FROM"
        /\ \A k \in 1..n : stmt[i + k] = " " \/ stmt[i + k] = "\t"
        /\ stmt[i + n + 1] = "pg_class"

(* C17: the statement the driver passes to the logging callback is sent to
   the log service once, at level debug and with the prefix "DB: ", unless it
   holds FROM, white space and pg_class in a row, and then nothing is sent;
   the callback sends nothing at another level, and nothing is sent before
   the callback is called. *)
C17_LoggingForwardsAtDebug ==
    /\ ~drv.called => drv.sink = <<>>
    /\ drv.called =>
          IF IsCatalogProbe(drv.stmt)
          THEN drv.sink = <<>>
          ELSE /\ Len(drv.sink) = 1
               /\ drv.sink[1].ev = "log"
               /\ drv.sink[1].text = "DB: "
               /\ drv.sink[1].url = drv.stmt
    /\ \A i \in 1..Len(drv.sink) :
          drv.sink[i].ev = "log" /\ drv.sink[i].level = "debug"

\* the callback was called with a statement that has two white-space pieces
\* between FROM and pg_class, and sent nothing
C17_Witness ==
    /\ drv.called
    /\ drv.stmt = <<"FROM", " ", "\t", "pg_class">>
    /\ drv.sink = <<>>

(* C18: prepare never closes a handle: in a call of prepare no close is
   called, and the handle it constructed stays in slot db with no close on
   it, also when the call has thrown; close is called only in release. *)
C18_PrepareNeverCloses ==
    /\ InPrepare =>
          /\ Count("close") = 0
          /\ \A i \in Idx("new") :
                /\ events[i].h # 0
                /\ rs.db = events[i].h
                /\ handles[events[i].h].closes = 0
    /\ Idx("close") # {} => InRelease
    /\ \A k \in 1..Len(handles) : handles[k].closes <= calls - 1

\* prepare has thrown a sync error: its handle is in slot db, not closed
C18_Witness ==
    /\ InPrepare
    /\ \E e \in SyncErrors : events[Len(events)] = Throw("prepare", e)
    /\ rs.db = 1 /\ Len(handles) = 1
    /\ handles[1].closes = 0

(* C19: in a worker process that is no daemon controller prepare does all but
   sync: a call that has returned has constructed the handle and published it
   in slot db, called authenticate, which resolved, logged the opened
   connection, published a schema model in slot dm and broadcast the hook,
   with no sync; and when authenticate rejects, the error is reported on the
   fatal channel with the connection url and thrown. *)
C19_WorkerDoesAllButSync ==
    (procmode = "worker" /\ ~DaemonController /\ InPrepare) =>
        /\ events[Len(events)] = Return("prepare") =>
              /\ Count("new") = 1 /\ Count("authenticate") = 1
              /\ Cardinality(Outcome("resolved", "authenticate")) = 1
              /\ \E i \in Idx("log") :
                    events[i] = Log("info", MsgOpened, ConnectionUrl)
              /\ Count("hook") = 1 /\ Count("hookret") = 1
              /\ Count("sync") = 0
              /\ rs.db # 0 /\ rs.dm # 0
              /\ \A i \in Idx("new") : events[i].h = rs.db
              /\ \A i \in Idx("hook") :
                    events[i].h = rs.db /\ events[i].dm = rs.dm
              /\ last = Ended("prepare", "returned", NoError)
        /\ \A i \in Outcome("rejected", "authenticate") :
              /\ Len(events) = i + 2
              /\ events[i + 1] = Fatal(MsgOpenFailed, ConnectionUrl, events[i].err)
              /\ events[i + 2] = Throw("prepare", events[i].err)
              /\ last = Ended("prepare", "threw", events[i].err)

\* a worker has completed prepare with the schema objects of its participants
C19_Witness ==
    /\ procmode = "worker" /\ ~DaemonController
    /\ InPrepare /\ events[Len(events)] = Return("prepare")
    /\ Count("hook") = 1 /\ Count("sync") = 0
    /\ rs.db = 1 /\ rs.dm = 1 /\ dms[1] = Names

====
